---- MODULE Spec2Model ----
(***************************************************************************)
(* Pocket_Monsters: a battle between two trainers' teams.                  *)
(*                                                                         *)
(*   battle.py     Battle.commence_battle, set_battle, rotate_battle,      *)
(*                 optimise_battle, battle                                 *)
(*   poke_team.py  PokeTeam (team, team_count, total_team, criterion;      *)
(*                 assemble_team, regenerate_team, special, __getitem__,   *)
(*                 push), Trainer (poketeam, pokedex)                      *)
(*   tower.py      BattleTower (battles_remaining, next_battle)            *)
(*                                                                         *)
(* Specifications:                                                         *)
(*   Spec, FairSpec  one battle of two freshly picked teams                *)
(*   TeamSpec        Spec with the PokeTeam methods called around a battle *)
(*                   and on a team picked alone                            *)
(*   DuelSpec        battles of two single-combatant teams                 *)
(*   TowerSpec,      a tower run of ROTATE battles                         *)
(*   FairTowerSpec                                                         *)
(*   SquadSpec       one battle in which trainer one's team is a squad of  *)
(*                   MaxSquad combatants                                   *)
(*                                                                         *)
(* pokemon.py and data_structures/ are not part of the sources at hand;    *)
(* Pokemon (health, level, speed, battle_power, attack, defend, level_up), *)
(* ArrayStack, CircularQueue, ArraySortedList and BSet are modelled from   *)
(* the design document (sections 3 and 4.1).                               *)
(***************************************************************************)
EXTENDS Integers, Sequences, FiniteSets, TLC

\* ------------------------------------------------------------------ bounds
\* largest number of combatants a trainer picks (at most TEAM_LIMIT)
MaxTeam == 2
\* len(PokeType): the size of the type catalogue (pokemon.py, not at hand)
NumPokeTypes == 5

\* ------------------------------------------------------- program constants
TEAM_LIMIT == 6
CRITERION_LIST == <<"health", "defence", "battle_power", "speed", "level">>

SET == "SET"
ROTATE == "ROTATE"
OPTIMISE == "OPTIMISE"
BattleMode == {SET, ROTATE, OPTIMISE}

Trainers == {1, 2}
None == "None"
TrainerName(t) == IF t = 1 THEN "trainer_1" ELSE "trainer_2"

\* ------------------------------------------------------------ the catalogue
\* get_all_pokemon_types(): the species a random pick draws from.  Every
\* species starts at level 1 with positive health.
POKE_LIST ==
  << [health |-> 2, battle_power |-> 0, speed |-> 1, defence |-> 1, poketype |-> 1],
     [health |-> 3, battle_power |-> 3, speed |-> 1, defence |-> 2, poketype |-> 3],
     [health |-> 4, battle_power |-> 1, speed |-> 2, defence |-> 3, poketype |-> 2] >>

\* all_pokemon[rand_int](): a fresh combatant of species s
NewPokemon(s) ==
  [health |-> POKE_LIST[s].health, original_hp |-> POKE_LIST[s].health,
   level |-> 1, battle_power |-> POKE_LIST[s].battle_power,
   speed |-> POKE_LIST[s].speed, defence |-> POKE_LIST[s].defence,
   poketype |-> POKE_LIST[s].poketype]

\* ---------------------------------------------------------------- Pokemon
is_alive(p) == p.health > 0
attack(p, other) == p.battle_power
defend(p, damage) == [p EXCEPT !.health = @ - damage]
level_up(p) == [p EXCEPT !.level = @ + 1]

\* the stat a criterion ranks by
Stat(p, crit) ==
  CASE crit = "health" -> p.health
    [] crit = "defence" -> p.defence
    [] crit = "battle_power" -> p.battle_power
    [] crit = "speed" -> p.speed
    [] crit = "level" -> p.level

\* ------------------------------------------------------------- containers
\* An entry of a container: the roster index of the combatant and, in the
\* sorted list, its key (0 in a stack or a queue, which hold no keys).
ListItem(v, k) == [value |-> v, key |-> k]

\* ArrayStack: the top is the last element
StackPush(s, x) == Append(s, x)
StackTop(s) == s[Len(s)]
StackPop(s) == SubSeq(s, 1, Len(s) - 1)

\* CircularQueue: the head is the first element
QueueAppend(q, x) == Append(q, x)
QueueHead(q) == q[1]
QueueServe(q) == Tail(q)

\* ArraySortedList.add: ascending by key, after the entries of equal key
RECURSIVE IndexToAdd(_, _, _)
IndexToAdd(l, item, i) ==
  IF i > Len(l) THEN i
  ELSE IF l[i].key > item.key THEN i
  ELSE IndexToAdd(l, item, i + 1)

SortedAdd(l, item) ==
  LET i == IndexToAdd(l, item, 1)
  IN SubSeq(l, 1, i - 1) \o <<item>> \o SubSeq(l, i, Len(l))

\* ArraySortedList.delete_at_index(0)
SortedFirst(l) == l[1]
SortedDeleteFirst(l) == Tail(l)

\* ---------------------------------------------------------------- Trainer
register_pokemon(dex, p) == dex \cup {p.poketype}

\* round(x, 2) of the ratio k / n, in hundredths: to the nearest hundredth,
\* an exact half to the even one
Round2(k, n) ==
  LET q == (100 * k) \div n
      r == (100 * k) % n
  IN IF 2 * r > n THEN q + 1
     ELSE IF 2 * r < n THEN q
     ELSE IF q % 2 = 0 THEN q ELSE q + 1

\* Trainer.get_pokedex_completion, in hundredths
get_pokedex_completion(dex) == Round2(Cardinality(dex), NumPokeTypes)

\* ----------------------------------------------------------------- damage
\* the least integer >= n / d, for d > 0
Ceil(n, d) == IF n % d = 0 THEN n \div d ELSE (n \div d) + 1

\* math.ceil(attack_point * a / b) is evaluated on binary64 floats, left to
\* right: the product attack_point * a is rounded, then the quotient.  For
\* the triples <<attack_point, 100 a, 100 b>> below the exact quotient is an
\* integer and the float quotient lies just above it, so math.ceil returns
\* the next integer.  For every other triple with attack_point in 0 .. 8
\* and a, b among the two-decimal ratios k/5, k/6 and k/7 the float result
\* is the exact ceiling.
Binary64Excess ==
  { <<7, 17, 17>>, <<3, 20, 20>>, <<6, 20, 20>>, <<6, 20, 40>>, <<3, 20, 60>>,
    <<6, 20, 60>>, <<3, 40, 20>>, <<6, 40, 20>>, <<3, 40, 40>>, <<6, 40, 40>>,
    <<3, 40, 60>>, <<6, 40, 60>>, <<6, 40, 80>>, <<7, 60, 60>>, <<3, 80, 20>>,
    <<6, 80, 20>>, <<3, 80, 40>>, <<6, 80, 40>>, <<3, 80, 60>>, <<6, 80, 60>>,
    <<3, 80, 80>>, <<6, 80, 80>> }

\* effective_damage = math.ceil(attack_point * cA / cB), cA and cB in hundredths
EffectiveDamage(attack_point, cA, cB) ==
  IF <<attack_point, cA, cB>> \in Binary64Excess
    THEN Ceil(attack_point * cA, cB) + 1
    ELSE Ceil(attack_point * cA, cB)

\* ----------------------------------------------------------- Battle.battle
AttacksAlwaysCounter(P1, P2, c1, c2) ==
  LET d1 == EffectiveDamage(attack(P2, P1), c2, c1)
      d2 == EffectiveDamage(attack(P1, P2), c1, c2)
  IN [P1 |-> defend(P1, d1), P2 |-> defend(P2, d2),
      first |-> IF P1.speed > P2.speed THEN "P1"
                ELSE IF P1.speed < P2.speed THEN "P2" ELSE "both",
      countered |-> P1.speed # P2.speed, dmg1 |-> d1, dmg2 |-> d2]

\* The attacks of one exchange.  P1, P2: the two combatants; c1, c2: the
\* completion of trainer_1 and trainer_2.  Returns the combatants after the
\* attacks and what was observed: who struck first ("P1", "P2" or "both"),
\* whether the slower one countered, and the damage passed to each defend
\* (-1 when the combatant was not attacked).
Attacks(P1, P2, c1, c2) ==
  IF P1.speed > P2.speed THEN
    LET d2 == EffectiveDamage(attack(P1, P2), c1, c2)
        Q2 == defend(P2, d2)
        d1 == EffectiveDamage(attack(Q2, P1), c2, c1)
    IN IF is_alive(Q2)
         THEN [P1 |-> defend(P1, d1), P2 |-> Q2, first |-> "P1",
               countered |-> TRUE, dmg1 |-> d1, dmg2 |-> d2]
         ELSE [P1 |-> P1, P2 |-> Q2, first |-> "P1",
               countered |-> FALSE, dmg1 |-> -1, dmg2 |-> d2]
  ELSE IF P1.speed < P2.speed THEN
    LET d1 == EffectiveDamage(attack(P2, P1), c2, c1)
        Q1 == defend(P1, d1)
        d2 == EffectiveDamage(attack(Q1, P2), c1, c2)
    IN IF is_alive(Q1)
         THEN [P1 |-> Q1, P2 |-> defend(P2, d2), first |-> "P2",
               countered |-> TRUE, dmg1 |-> d1, dmg2 |-> d2]
         ELSE [P1 |-> Q1, P2 |-> P2, first |-> "P2",
               countered |-> FALSE, dmg1 |-> d1, dmg2 |-> -1]
  ELSE
    \* attack_point is assigned twice; the second value is the one used
    LET attack_point == attack(P2, P1)
        effective_damage_Pokemon_1 == EffectiveDamage(attack_point, c1, c2)
        effective_damage_Pokemon_2 == EffectiveDamage(attack_point, c2, c1)
    IN [P1 |-> defend(P1, effective_damage_Pokemon_2),
        P2 |-> defend(P2, effective_damage_Pokemon_1),
        first |-> "both", countered |-> FALSE,
        dmg1 |-> effective_damage_Pokemon_2, dmg2 |-> effective_damage_Pokemon_1]

AfterAttacksNoLevel(A1, A2) ==
  IF is_alive(A1) /\ ~is_alive(A2) THEN [P1 |-> A1, P2 |-> A2, grind |-> FALSE]
  ELSE IF is_alive(A2) /\ ~is_alive(A1) THEN [P1 |-> A1, P2 |-> A2, grind |-> FALSE]
  ELSE
    LET G1 == [A1 EXCEPT !.health = @ - 1]
        G2 == [A2 EXCEPT !.health = @ - 1]
    IN IF ~is_alive(G1) THEN [P1 |-> G1, P2 |-> level_up(G2), grind |-> TRUE]
       ELSE IF ~is_alive(G2) THEN [P1 |-> level_up(G1), P2 |-> G2, grind |-> TRUE]
       ELSE [P1 |-> G1, P2 |-> G2, grind |-> TRUE]

AfterAttacksNoGrind(A1, A2) ==
  IF is_alive(A1) /\ ~is_alive(A2) THEN
    [P1 |-> level_up(A1), P2 |-> A2, grind |-> FALSE]
  ELSE IF is_alive(A2) /\ ~is_alive(A1) THEN
    [P1 |-> A1, P2 |-> level_up(A2), grind |-> FALSE]
  ELSE [P1 |-> A1, P2 |-> A2, grind |-> FALSE]

AfterAttacksNoLevelAfterGrind(A1, A2) ==
  IF is_alive(A1) /\ ~is_alive(A2) THEN
    [P1 |-> level_up(A1), P2 |-> A2, grind |-> FALSE]
  ELSE IF is_alive(A2) /\ ~is_alive(A1) THEN
    [P1 |-> A1, P2 |-> level_up(A2), grind |-> FALSE]
  ELSE [P1 |-> [A1 EXCEPT !.health = @ - 1], P2 |-> [A2 EXCEPT !.health = @ - 1],
        grind |-> TRUE]

\* The part of battle after the attacks: level-up of a lone survivor, else
\* one health off each and a level-up decided on the new health.
AfterAttacks(A1, A2) ==
  IF is_alive(A1) /\ ~is_alive(A2) THEN
    [P1 |-> level_up(A1), P2 |-> A2, grind |-> FALSE]
  ELSE IF is_alive(A2) /\ ~is_alive(A1) THEN
    [P1 |-> A1, P2 |-> level_up(A2), grind |-> FALSE]
  ELSE
    LET G1 == [A1 EXCEPT !.health = @ - 1]
        G2 == [A2 EXCEPT !.health = @ - 1]
    IN IF ~is_alive(G1) THEN [P1 |-> G1, P2 |-> level_up(G2), grind |-> TRUE]
       ELSE IF ~is_alive(G2) THEN [P1 |-> level_up(G1), P2 |-> G2, grind |-> TRUE]
       ELSE [P1 |-> G1, P2 |-> G2, grind |-> TRUE]

\* the one element of a singleton set
Only(S) == CHOOSE x \in S : TRUE

\* what one call of battle did.  pre1, pre2: the combatants before; a: the
\* outcome of the attacks; b: the outcome of the part after them
Report(P1, P2, c1, c2, a, b) ==
  [pre1 |-> P1, pre2 |-> P2, mid1 |-> a.P1, mid2 |-> a.P2,
   P1 |-> b.P1, P2 |-> b.P2, first |-> a.first, countered |-> a.countered,
   dmg1 |-> a.dmg1, dmg2 |-> a.dmg2, grind |-> b.grind, c1 |-> c1, c2 |-> c2]

\* Battle.battle(Pokemon_1, Pokemon_2): the attacks, then the part after
\* them (each outcome is bound as a set element, so it is computed once)
battle(P1, P2, c1, c2) ==
  Only({ Only({ Report(P1, P2, c1, c2, a, b) : b \in {AfterAttacks(a.P1, a.P2)} })
         : a \in {Attacks(P1, P2, c1, c2)} })

\* -------------------------------------------------------------- variables
VARIABLES
  phase,        \* "init": trainers constructed; "battle": in the battle loop; "done"
  battle_mode,  \* Battle.battle_mode
  criterion,    \* Battle.criterion (= PokeTeam.criterion after _create_teams)
  total_team,   \* total_team[t][i]: the i-th combatant of trainer t's roster
  team,         \* team[t]: PokeTeam.team, the container of entries
  team_count,   \* team_count[t]: PokeTeam.team_count
  pokedex,      \* pokedex[t]: Trainer.pokedex, the set of registered types
  result,       \* what commence_battle returned: None, "trainer_1" or "trainer_2"
  last,         \* observation of the last exchange (see battle)
  extracted,    \* extracted[t]: the extractions from team t in order, each with
                \* the combatant's roster index and whether it survived
  kind,         \* kind[t]: type(PokeTeam.team), the container's class
  team_mode,    \* team_mode[t]: PokeTeam.battle_mode
  reversed,     \* reversed[t]: special() was called an odd number of times
  error,        \* the exception the last call raised, None when it returned
  op,           \* observation of the last PokeTeam call made from outside a
                \* battle (special, __getitem__, regenerate_team, push, ...)
  my_trainer_lives,  \* BattleTower.my_trainer_lives
  enemy_trainers,    \* BattleTower.enemy_trainers: a queue of trainers
  enemy_lives,       \* BattleTower.enemy_lives: the queue of their lives
  lives_taken,       \* BattleTower.lives_taken
  tower              \* observation of the last next_battle call

teamVars == <<kind, team_mode, reversed, error, op>>
towerVars == <<my_trainer_lives, enemy_trainers, enemy_lives, lives_taken, tower>>

vars == <<phase, battle_mode, criterion, total_team, team, team_count,
          pokedex, result, last, extracted, teamVars, towerVars>>

\* the classes a PokeTeam.team can be
ArrayR == "ArrayR"
ArrayStack == "ArrayStack"
CircularQueue == "CircularQueue"
ArraySortedList == "ArraySortedList"

\* no call observed
NoOp == [name |-> "none"]

Init ==
  /\ phase = "init"
  /\ battle_mode = SET
  /\ criterion = "health"
  /\ total_team = [t \in Trainers |-> <<>>]
  /\ team = [t \in Trainers |-> <<>>]
  /\ team_count = [t \in Trainers |-> 0]
  /\ pokedex = [t \in Trainers |-> {}]
  /\ result = None
  /\ last = [n |-> 0]
  /\ extracted = [t \in Trainers |-> <<>>]
  /\ kind = [t \in Trainers |-> ArrayR]
  /\ team_mode = [t \in Trainers |-> None]
  /\ reversed = [t \in Trainers |-> FALSE]
  /\ error = None
  /\ op = NoOp
  /\ my_trainer_lives = 0
  /\ enemy_trainers = <<>>
  /\ enemy_lives = <<>>
  /\ lives_taken = 0
  /\ tower = [n |-> 0]

\* ------------------------------------------------------------- PokeTeam
\* the rosters choose_randomly can draw: n combatants, each of any species
Rosters == UNION { [1 .. n -> 1 .. Len(POKE_LIST)] : n \in 0 .. MaxTeam }

\* PokeTeam.choose_randomly: the combatants of a drawn roster
choose_randomly(r) == [i \in 1 .. Len(r) |-> NewPokemon(r[i])]

\* PokeTeam.assign_team(criterion): add every combatant, in roster order, to a
\* new sorted list under the key the criterion gives it
RECURSIVE assign_team(_, _, _)
assign_team(pokes, crit, n) ==
  IF n = 0 THEN <<>>
  ELSE SortedAdd(assign_team(pokes, crit, n - 1), ListItem(n, Stat(pokes[n], crit)))

\* PokeTeam.assemble_team(battle_mode): a new stack (pushed in roster order),
\* a new queue (appended in roster order) or a new sorted list
RECURSIVE FillStack(_)
FillStack(n) == IF n = 0 THEN <<>> ELSE StackPush(FillStack(n - 1), ListItem(n, 0))

RECURSIVE FillQueue(_)
FillQueue(n) == IF n = 0 THEN <<>> ELSE QueueAppend(FillQueue(n - 1), ListItem(n, 0))

\* the ArrayR a pick fills: the roster in order
FillArray(n) == [i \in 1 .. n |-> ListItem(i, 0)]

\* the criteria assign_team knows
Criteria == { CRITERION_LIST[i] : i \in 1 .. Len(CRITERION_LIST) }

\* assign_team under another criterion only prints a message and installs
\* the new, empty sorted list; assemble_team in another mode raises and
\* leaves the ArrayR in place
assemble_team(pokes, mode, crit) ==
  CASE mode = SET -> FillStack(Len(pokes))
    [] mode = ROTATE -> FillQueue(Len(pokes))
    [] mode = OPTIMISE -> IF crit \in Criteria
                            THEN assign_team(pokes, crit, Len(pokes))
                            ELSE <<>>
    [] OTHER -> FillArray(Len(pokes))

\* the class of the container assemble_team builds in a mode
KindOf(mode) ==
  CASE mode = SET -> ArrayStack
    [] mode = ROTATE -> CircularQueue
    [] mode = OPTIMISE -> ArraySortedList
    [] OTHER -> ArrayR

\* PokeTeam.push(pokemon, criterion, isNegative) in OPTIMISE mode: a new entry
\* keyed by isNegative times the combatant's current stat under the criterion
pushByHealth(l, v, p, crit, isNegative) ==
  SortedAdd(l, ListItem(v, isNegative * Stat(p, "health")))
push(l, v, p, crit, isNegative) == SortedAdd(l, ListItem(v, isNegative * Stat(p, crit)))

\* PokeTeam.is_empty
is_empty(t) == team_count[t] = 0

\* the types of a roster's combatants: pick_team registers each of them
TypesOf(pokes) == { pokes[i].poketype : i \in 1 .. Len(pokes) }

\* --------------------------------------------------------------- Battle
\* Battle(trainer_1, trainer_2, battle_mode, criterion) and _create_teams:
\* each trainer picks a roster, registers it and assembles its team.
CreateTeams ==
  /\ phase = "init"
  /\ \E mode \in BattleMode, r1 \in Rosters, r2 \in Rosters :
       \E crit \in (IF mode = OPTIMISE
                      THEN { CRITERION_LIST[i] : i \in 1 .. Len(CRITERION_LIST) }
                      ELSE {"health"}) :
         LET pokes == [t \in Trainers |-> choose_randomly(IF t = 1 THEN r1 ELSE r2)]
         IN /\ battle_mode' = mode
            /\ criterion' = crit
            /\ total_team' = pokes
            /\ team_count' = [t \in Trainers |-> Len(pokes[t])]
            /\ pokedex' = [t \in Trainers |-> TypesOf(pokes[t])]
            /\ team' = [t \in Trainers |-> assemble_team(pokes[t], mode, crit)]
            /\ kind' = [t \in Trainers |-> KindOf(mode)]
            /\ team_mode' = [t \in Trainers |-> mode]
  /\ phase' = "battle"
  /\ UNCHANGED <<result, last, extracted, reversed, error, op, towerVars>>

\* "attack_point * completion / completion" raises ZeroDivisionError when
\* the divisor is 0.0: whether one of the divisions battle evaluates does,
\* and the combatants at that moment (the faster one's attack may have
\* landed before the counter's damage is computed)
ZeroDivision(P1, P2, c1, c2) ==
  IF P1.speed > P2.speed THEN
    IF c2 = 0 THEN [raised |-> TRUE, P1 |-> P1, P2 |-> P2]
    ELSE LET Q2 == defend(P2, EffectiveDamage(attack(P1, P2), c1, c2))
         IN [raised |-> is_alive(Q2) /\ c1 = 0, P1 |-> P1, P2 |-> Q2]
  ELSE IF P1.speed < P2.speed THEN
    IF c1 = 0 THEN [raised |-> TRUE, P1 |-> P1, P2 |-> P2]
    ELSE LET Q1 == defend(P1, EffectiveDamage(attack(P2, P1), c2, c1))
         IN [raised |-> is_alive(Q1) /\ c2 = 0, P1 |-> Q1, P2 |-> P2]
  ELSE [raised |-> c1 = 0 \/ c2 = 0, P1 |-> P1, P2 |-> P2]

\* One iteration of a battle loop after the two extractions: i1, i2 are the
\* extracted entries, rest1, rest2 the containers without them.  Registers
\* each combatant with the opposing trainer, runs battle, and returns what
\* battle observed together with the new registries; raised tells that
\* battle ended in a ZeroDivisionError, and r then holds the combatants as
\* the error left them.
FightNoRegister(i1, i2) ==
  LET P1 == total_team[1][i1.value]
      P2 == total_team[2][i2.value]
      c1 == get_pokedex_completion(pokedex[1])
      c2 == get_pokedex_completion(pokedex[2])
  IN Only({ [raised |-> z.raised,
             r |-> IF z.raised THEN [P1 |-> z.P1, P2 |-> z.P2, c1 |-> c1, c2 |-> c2]
                               ELSE battle(P1, P2, c1, c2),
             dex1 |-> pokedex[1], dex2 |-> pokedex[2]]
            : z \in {ZeroDivision(P1, P2, c1, c2)} })

FightRegisterAfter(i1, i2) ==
  LET P1 == total_team[1][i1.value]
      P2 == total_team[2][i2.value]
      c1 == get_pokedex_completion(pokedex[1])
      c2 == get_pokedex_completion(pokedex[2])
  IN Only({ [raised |-> z.raised,
             r |-> IF z.raised THEN [P1 |-> z.P1, P2 |-> z.P2, c1 |-> c1, c2 |-> c2]
                               ELSE battle(P1, P2, c1, c2),
             dex1 |-> register_pokemon(pokedex[1], P2),
             dex2 |-> register_pokemon(pokedex[2], P1)]
            : z \in {ZeroDivision(P1, P2, c1, c2)} })

Fight(i1, i2) ==
  LET P1 == total_team[1][i1.value]
      P2 == total_team[2][i2.value]
      dex1 == register_pokemon(pokedex[1], P2)
      dex2 == register_pokemon(pokedex[2], P1)
      c1 == get_pokedex_completion(dex1)
      c2 == get_pokedex_completion(dex2)
  IN Only({ [raised |-> z.raised,
             r |-> IF z.raised THEN [P1 |-> z.P1, P2 |-> z.P2, c1 |-> c1, c2 |-> c2]
                               ELSE battle(P1, P2, c1, c2),
             dex1 |-> dex1, dex2 |-> dex2]
            : z \in {ZeroDivision(P1, P2, c1, c2)} })

\* "if Pokemon.is_alive(): <put it back>": the container after the iteration,
\* rest without the extracted entry, back with it put back
PutBackTurningRest(P, rest, back) ==
  IF is_alive(P) THEN back ELSE [i \in 1 .. Len(rest) |-> rest[Len(rest) + 1 - i]]
PutBackAlways(P, rest, back) == back
PutBack(P, rest, back) == IF is_alive(P) THEN back ELSE rest

\* "if not Pokemon.is_alive(): team_count -= 1"
NewCountAlways(P, count) == count - 1
NewCount(P, count) == IF ~is_alive(P) THEN count - 1 ELSE count

\* team t's container without the entry the loop of the battle's mode
\* extracts
Rest(t) ==
  CASE battle_mode = SET -> StackPop(team[t])
    [] battle_mode = ROTATE -> QueueServe(team[t])
    [] battle_mode = OPTIMISE -> SortedDeleteFirst(team[t])

\* The end of an iteration: new1, new2 are the containers after the
\* survivors were put back; the live count of a team drops by one when its
\* combatant is dead.  When battle raised, the error leaves the loop and
\* commence_battle: the extracted entries are not put back.
EndIteration(f, i1, i2, new1, new2) ==
  /\ pokedex' = [t \in Trainers |-> IF t = 1 THEN f.dex1 ELSE f.dex2]
  /\ total_team' = [total_team EXCEPT ![1][i1.value] = f.r.P1,
                                      ![2][i2.value] = f.r.P2]
  /\ IF f.raised
       THEN /\ team' = [t \in Trainers |-> Rest(t)]
            /\ error' = "ZeroDivisionError"
            /\ phase' = "raised"
            /\ UNCHANGED <<team_count, last, extracted>>
       ELSE /\ team' = [t \in Trainers |-> IF t = 1 THEN new1 ELSE new2]
            /\ team_count' = [team_count EXCEPT ![1] = NewCount(f.r.P1, @),
                                                ![2] = NewCount(f.r.P2, @)]
            /\ last' = [n |-> last.n + 1, v1 |-> i1.value, v2 |-> i2.value, r |-> f.r,
                        key1 |-> i1.key, key2 |-> i2.key,
                        size1 |-> Len(team[1]), size2 |-> Len(team[2]),
                        count1 |-> team_count[1], count2 |-> team_count[2]]
            /\ extracted' = [extracted EXCEPT
                               ![1] = Append(@, [value |-> i1.value, alive |-> is_alive(f.r.P1)]),
                               ![2] = Append(@, [value |-> i2.value, alive |-> is_alive(f.r.P2)])]
            /\ UNCHANGED <<phase, error>>
  /\ op' = NoOp
  /\ UNCHANGED <<battle_mode, criterion, result, kind, team_mode,
                 reversed, towerVars>>

\* Battle.set_battle, one iteration of the loop
SetBattleLoopBottom ==
  /\ phase = "battle" /\ battle_mode = SET
  /\ team[1] # <<>> /\ team[2] # <<>>
  /\ LET i1 == StackTop(team[1])
         i2 == StackTop(team[2])
         rest1 == StackPop(team[1])
         rest2 == StackPop(team[2])
     IN \E f \in {Fight(i1, i2)} : EndIteration(f, i1, i2,
                     PutBack(f.r.P1, rest1, <<i1>> \o rest1),
                     PutBack(f.r.P2, rest2, <<i2>> \o rest2))

SetBattleLoop ==
  /\ phase = "battle" /\ battle_mode = SET
  /\ team[1] # <<>> /\ team[2] # <<>>
  /\ LET i1 == StackTop(team[1])
         i2 == StackTop(team[2])
         rest1 == StackPop(team[1])
         rest2 == StackPop(team[2])
     IN \E f \in {Fight(i1, i2)} : EndIteration(f, i1, i2,
                     PutBack(f.r.P1, rest1, StackPush(rest1, i1)),
                     PutBack(f.r.P2, rest2, StackPush(rest2, i2)))

RotateBattleLoopFront ==
  /\ phase = "battle" /\ battle_mode = ROTATE
  /\ team[1] # <<>> /\ team[2] # <<>>
  /\ LET i1 == QueueHead(team[1])
         i2 == QueueHead(team[2])
         rest1 == QueueServe(team[1])
         rest2 == QueueServe(team[2])
     IN \E f \in {Fight(i1, i2)} : EndIteration(f, i1, i2,
                     PutBack(f.r.P1, rest1, <<i1>> \o rest1),
                     PutBack(f.r.P2, rest2, <<i2>> \o rest2))

\* Battle.rotate_battle, one iteration of the loop
RotateBattleLoop ==
  /\ phase = "battle" /\ battle_mode = ROTATE
  /\ team[1] # <<>> /\ team[2] # <<>>
  /\ LET i1 == QueueHead(team[1])
         i2 == QueueHead(team[2])
         rest1 == QueueServe(team[1])
         rest2 == QueueServe(team[2])
     IN \E f \in {Fight(i1, i2)} : EndIteration(f, i1, i2,
                     PutBack(f.r.P1, rest1, QueueAppend(rest1, i1)),
                     PutBack(f.r.P2, rest2, QueueAppend(rest2, i2)))

\* the sign optimise_battle passes to push: -1 for an entry of negative key
SignOfFlipped(item) == IF item.key < 0 THEN 1 ELSE -1
SignOf(item) == IF item.key < 0 THEN -1 ELSE 1

\* Battle.optimise_battle, one iteration of the loop
OptimiseBattleLoop ==
  /\ phase = "battle" /\ battle_mode = OPTIMISE
  /\ team_count[1] > 0 /\ team_count[2] > 0
  /\ LET i1 == SortedFirst(team[1])
         i2 == SortedFirst(team[2])
         rest1 == SortedDeleteFirst(team[1])
         rest2 == SortedDeleteFirst(team[2])
     IN \E f \in {Fight(i1, i2)} : EndIteration(f, i1, i2,
                     PutBack(f.r.P1, rest1,
                             push(rest1, i1.value, f.r.P1, criterion, SignOf(i1))),
                     PutBack(f.r.P2, rest2,
                             push(rest2, i2.value, f.r.P2, criterion, SignOf(i2))))

\* whether the loop of the battle's mode goes on
LoopCondition ==
  IF battle_mode = OPTIMISE
    THEN team_count[1] > 0 /\ team_count[2] > 0
    ELSE team[1] # <<>> /\ team[2] # <<>>

WinnerNoDraw ==
  IF (IF battle_mode = OPTIMISE THEN is_empty(1) ELSE team[1] = <<>>)
    THEN TrainerName(2) ELSE TrainerName(1)

\* what set_battle, rotate_battle and optimise_battle return after the loop:
\* the first two ask the containers, the third asks PokeTeam.is_empty
Winner ==
  LET empty1 == IF battle_mode = OPTIMISE THEN is_empty(1) ELSE team[1] = <<>>
      empty2 == IF battle_mode = OPTIMISE THEN is_empty(2) ELSE team[2] = <<>>
  IN IF empty1 /\ empty2 THEN None
     ELSE IF empty1 THEN TrainerName(2)
     ELSE TrainerName(1)

\* Battle.commence_battle returns
CommenceReturn ==
  /\ phase = "battle"
  /\ ~LoopCondition
  /\ result' = Winner
  /\ phase' = "done"
  /\ UNCHANGED <<battle_mode, criterion, total_team, team, team_count,
                 pokedex, last, extracted, teamVars, towerVars>>

Next ==
  \/ CreateTeams
  \/ SetBattleLoop
  \/ RotateBattleLoop
  \/ OptimiseBattleLoop
  \/ CommenceReturn

Spec == Init /\ [][Next]_vars

\* a step of a battle under way
BattleStep == SetBattleLoop \/ RotateBattleLoop \/ OptimiseBattleLoop \/ CommenceReturn

\* commence_battle is one synchronous call: once entered, its loop is run to
\* the end and it returns; nothing suspends it
FairSpec == Spec /\ WF_vars(BattleStep)

\* ------------------------------------------- PokeTeam, called directly
\* largest roster of a team that is picked and assembled on its own
MaxRoster == 4
BigRosters == UNION { [1 .. n -> 1 .. Len(POKE_LIST)] : n \in 0 .. MaxRoster }

\* a mode tag that is none of SET, ROTATE, OPTIMISE
UNKNOWN == "UNKNOWN"

\* an entry that holds None instead of a combatant
NoneItem == ListItem(0, 0)

\* Trainer.pick_team("Random") and PokeTeam.assemble_team(mode) of trainer 1
\* alone, under any mode tag and, in OPTIMISE mode, any criterion including
\* the one a new PokeTeam has (" ").  assemble_team stores the mode before
\* it looks at it.
PickTeam ==
  /\ phase = "init"
  /\ \E mode \in BattleMode \cup {UNKNOWN}, r \in BigRosters :
       \E crit \in (IF mode = OPTIMISE THEN Criteria \cup {" "} ELSE {" "}) :
         LET pokes == choose_randomly(r)
         IN /\ criterion' = crit
            /\ total_team' = [total_team EXCEPT ![1] = pokes]
            /\ team_count' = [team_count EXCEPT ![1] = Len(pokes)]
            /\ pokedex' = [pokedex EXCEPT ![1] = TypesOf(pokes)]
            /\ team' = [team EXCEPT ![1] = assemble_team(pokes, mode, crit)]
            /\ kind' = [kind EXCEPT ![1] = KindOf(mode)]
            /\ team_mode' = [team_mode EXCEPT ![1] = mode]
            /\ error' = IF mode \in BattleMode THEN None ELSE "ValueError"
            /\ op' = [name |-> "assemble_team", t |-> 1, mode |-> mode,
                      criterion |-> crit, before |-> FillArray(Len(pokes)),
                      count |-> Len(pokes)]
  /\ phase' = "team"
  /\ UNCHANGED <<battle_mode, result, last, extracted, reversed, towerVars>>

\* k times "q.append(s.pop())"
RECURSIVE StackToQueue(_, _, _)
StackToQueue(s, q, k) ==
  IF k = 0 THEN [s |-> s, q |-> q]
  ELSE StackToQueue(StackPop(s), QueueAppend(q, StackTop(s)), k - 1)

\* k times "s.push(q.serve())"
RECURSIVE QueueToStack(_, _, _)
QueueToStack(q, s, k) ==
  IF k = 0 THEN [s |-> s, q |-> q]
  ELSE QueueToStack(QueueServe(q), StackPush(s, QueueHead(q)), k - 1)

\* k times "temp.append(q.serve())"
RECURSIVE QueueToQueue(_, _, _)
QueueToQueue(q, temp, k) ==
  IF k = 0 THEN [q |-> q, temp |-> temp]
  ELSE QueueToQueue(QueueServe(q), QueueAppend(temp, QueueHead(q)), k - 1)

\* "temp.add(ListItem(self.team[i].value, -self.team[i].key))" for the
\* first n entries of l
RECURSIVE NegatedKeysAppended(_, _)
NegatedKeysAppended(l, n) ==
  IF n = 0 THEN <<>>
  ELSE Append(NegatedKeysAppended(l, n - 1), ListItem(l[n].value, -l[n].key))

RECURSIVE NegatedKeys(_, _)
NegatedKeys(l, n) ==
  IF n = 0 THEN <<>>
  ELSE SortedAdd(NegatedKeys(l, n - 1), ListItem(l[n].value, -l[n].key))

\* PokeTeam.special(battle_mode): the container after the call.  SET: half
\* the stack (rounded down) is popped into a queue and pushed back from it.
\* ROTATE: half the queue (rounded down) is moved to a new queue, the rest
\* goes through a stack and is appended after it.  OPTIMISE: every entry is
\* added to a new sorted list under the negated key.  Any other tag: no
\* branch is taken.
specialHalves(l, mode) ==
  CASE mode = SET ->
         LET n == Len(l) \div 2
             a == StackToQueue(l, <<>>, n)
         IN QueueToStack(a.q, a.s, n).s
    [] mode = ROTATE ->
         LET n == Len(l) \div 2
             a == QueueToQueue(l, <<>>, n)
             b == QueueToStack(a.q, <<>>, n)
         IN StackToQueue(b.s, a.temp, n).q
    [] mode = OPTIMISE -> NegatedKeys(l, Len(l))
    [] OTHER -> l

specialCut(l, mode) ==
  CASE mode = SET ->
         LET n == Len(l) \div 2
         IN SubSeq(l, Len(l) - n + 1, Len(l)) \o SubSeq(l, 1, Len(l) - n)
    [] mode = ROTATE ->
         LET a == QueueToQueue(l, <<>>, Len(l) \div 2)
             b == QueueToStack(a.q, <<>>, Len(a.q))
         IN StackToQueue(b.s, a.temp, Len(b.s)).q
    [] mode = OPTIMISE -> NegatedKeys(l, Len(l))
    [] OTHER -> l

specialRotate(l, mode) ==
  CASE mode = SET ->
         LET n == Len(l) \div 2
             a == StackToQueue(l, <<>>, n)
         IN QueueToStack(a.q, a.s, n).s
    [] mode = ROTATE ->
         LET a == QueueToQueue(l, <<>>, Len(l) \div 2)
         IN QueueToQueue(a.temp, a.q, Len(a.temp)).temp
    [] mode = OPTIMISE -> NegatedKeys(l, Len(l))
    [] OTHER -> l

specialRoundUp(l, mode) ==
  CASE mode = SET ->
         LET n == (Len(l) + 1) \div 2
             a == StackToQueue(l, <<>>, n)
         IN QueueToStack(a.q, a.s, n).s
    [] mode = ROTATE ->
         LET a == QueueToQueue(l, <<>>, Len(l) \div 2)
             b == QueueToStack(a.q, <<>>, Len(a.q))
         IN StackToQueue(b.s, a.temp, Len(b.s)).q
    [] mode = OPTIMISE -> NegatedKeys(l, Len(l))
    [] OTHER -> l

special(l, mode) ==
  CASE mode = SET ->
         LET n == Len(l) \div 2
             a == StackToQueue(l, <<>>, n)
         IN QueueToStack(a.q, a.s, n).s
    [] mode = ROTATE ->
         LET a == QueueToQueue(l, <<>>, Len(l) \div 2)
             b == QueueToStack(a.q, <<>>, Len(a.q))
         IN StackToQueue(b.s, a.temp, Len(b.s)).q
    [] mode = OPTIMISE -> NegatedKeys(l, Len(l))
    [] OTHER -> l

\* a call of team t's special(mode) with the mode the team was assembled
\* in, on a team picked alone or on a team of a battle that has not begun.
\* op.twice holds the container before the previous call when that call was
\* special() on the same team.
Special(t) ==
  /\ \/ phase = "team" /\ t = 1
     \/ phase = "battle" /\ last.n = 0
  /\ team' = [team EXCEPT ![t] = special(team[t], team_mode[t])]
  /\ reversed' = [reversed EXCEPT ![t] = IF team_mode[t] = OPTIMISE THEN ~@ ELSE @]
  /\ error' = None
  /\ op' = [name |-> "special", t |-> t, mode |-> team_mode[t],
            before |-> team[t], count |-> team_count[t],
            twice |-> IF op.name = "special" /\ op.t = t
                        THEN <<op.before>> ELSE <<>>]
  /\ UNCHANGED <<phase, battle_mode, criterion, total_team, team_count, pokedex,
                 result, last, extracted, kind, team_mode, towerVars>>

\* k times "to.push(from.pop())"
RECURSIVE StackToStack(_, _, _)
StackToStack(from, to, k) ==
  IF k = 0 THEN [from |-> from, to |-> to]
  ELSE StackToStack(StackPop(from), StackPush(to, StackTop(from)), k - 1)

\* "for i in range(len(self.team)): pokemon_storage[i] = self.team.serve()":
\* an ArrayR of length TEAM_LIMIT whose first slots hold the queue's entries
\* and whose other slots hold None
Storage(q) == [i \in 1 .. TEAM_LIMIT |-> IF i <= Len(q) THEN q[i] ELSE NoneItem]

\* "self.assemble_team(BattleMode.ROTATE)" on an ArrayR: every slot of the
\* array, whatever it holds, is appended to a new queue
RECURSIVE AppendSlots(_, _)
AppendSlots(array, n) ==
  IF n = 0 THEN <<>> ELSE QueueAppend(AppendSlots(array, n - 1), array[n])

\* PokeTeam.__getitem__(index): the value returned (a roster index, 0 for
\* None) and the container after the call.  A stack is popped index + 1
\* times into a second stack and restored from it; a queue is served empty
\* into an ArrayR(TEAM_LIMIT), which assemble_team(ROTATE) turns into the
\* new queue; a sorted list and an ArrayR are indexed in place.
getitem(l, knd, index) ==
  CASE knd = ArrayStack ->
         LET a == StackToStack(l, <<>>, index + 1)
         IN [value |-> StackTop(a.to).value,
             team |-> StackToStack(a.to, a.from, index + 1).to]
    [] knd = CircularQueue ->
         LET pokemon_storage == Storage(l)
         IN [value |-> pokemon_storage[index + 1].value,
             team |-> AppendSlots(pokemon_storage, Len(pokemon_storage))]
    [] OTHER -> [value |-> l[index + 1].value, team |-> l]

\* team[index] for an index below the number of entries held, on a team
\* picked alone or at an iteration boundary of a battle; the run is followed
\* up to this read
GetItem(t, index) ==
  /\ \/ phase = "team" /\ t = 1
     \/ phase = "battle"
  /\ index \in 0 .. Len(team[t]) - 1
  /\ \E g \in {getitem(team[t], kind[t], index)} :
       /\ team' = [team EXCEPT ![t] = g.team]
       /\ op' = [name |-> "getitem", t |-> t, index |-> index,
                 before |-> team[t], count |-> team_count[t], value |-> g.value]
  /\ team_mode' = [team_mode EXCEPT ![t] = IF kind[t] = CircularQueue THEN ROTATE ELSE @]
  /\ error' = None
  /\ phase' = "read"
  /\ UNCHANGED <<battle_mode, criterion, total_team, team_count, pokedex,
                 result, last, extracted, kind, reversed, towerVars>>

\* "self.total_team[i].health = self.total_team[i].original_hp" for every i
Healed(pokes) == [i \in 1 .. Len(pokes) |-> [pokes[i] EXCEPT !.health = pokes[i].original_hp]]

\* PokeTeam.regenerate_team(battle_mode, criterion): the roster, the
\* container and its class after the call.  SET and ROTATE: a new stack or
\* queue of the healed roster; OPTIMISE: a new ArrayR of the healed roster,
\* which assign_team ranks when the criterion is one of CRITERION_LIST and
\* which is left as it is (after a printed message) otherwise; any other
\* tag: no branch is taken.  team_count and battle_mode are not assigned.
regenerate_teamNoHeal(pokes, l, knd, mode, crit) ==
  CASE mode = SET -> [pokes |-> pokes, team |-> FillStack(Len(pokes)), kind |-> ArrayStack]
    [] mode = ROTATE -> [pokes |-> pokes, team |-> FillQueue(Len(pokes)), kind |-> CircularQueue]
    [] mode = OPTIMISE ->
         IF crit \in Criteria
           THEN [pokes |-> pokes, team |-> assign_team(pokes, crit, Len(pokes)),
                 kind |-> ArraySortedList]
           ELSE [pokes |-> pokes, team |-> FillArray(Len(pokes)), kind |-> ArrayR]
    [] OTHER -> [pokes |-> pokes, team |-> l, kind |-> knd]

regenerate_team(pokes, l, knd, mode, crit) ==
  CASE mode = SET ->
         [pokes |-> Healed(pokes), team |-> FillStack(Len(pokes)), kind |-> ArrayStack]
    [] mode = ROTATE ->
         [pokes |-> Healed(pokes), team |-> FillQueue(Len(pokes)), kind |-> CircularQueue]
    [] mode = OPTIMISE ->
         IF crit \in Criteria
           THEN [pokes |-> Healed(pokes),
                 team |-> assign_team(Healed(pokes), crit, Len(pokes)),
                 kind |-> ArraySortedList]
           ELSE [pokes |-> Healed(pokes), team |-> FillArray(Len(pokes)), kind |-> ArrayR]
    [] OTHER -> [pokes |-> pokes, team |-> l, kind |-> knd]

\* a call of team t's regenerate_team, on a team picked alone or after a
\* battle has returned, under any mode tag and, in OPTIMISE mode, any
\* criterion including the default (None); the run is followed up to it
Regenerate(t) ==
  /\ \/ phase = "team" /\ t = 1
     \/ phase = "done"
  /\ \E mode \in BattleMode \cup {UNKNOWN} :
       \E crit \in (IF mode = OPTIMISE THEN Criteria \cup {None} ELSE {None}) :
         \E g \in {regenerate_team(total_team[t], team[t], kind[t], mode, crit)} :
           /\ total_team' = [total_team EXCEPT ![t] = g.pokes]
           /\ team' = [team EXCEPT ![t] = g.team]
           /\ kind' = [kind EXCEPT ![t] = g.kind]
           /\ op' = [name |-> "regenerate_team", t |-> t, mode |-> mode,
                     criterion |-> crit, before |-> team[t],
                     count |-> team_count[t], pokes |-> total_team[t]]
  /\ error' = None
  /\ phase' = "regenerated"
  /\ UNCHANGED <<battle_mode, criterion, team_count, pokedex, result, last,
                 extracted, team_mode, reversed, towerVars>>

\* PokeTeam.push(pokemon, criterion, isNegative) under the mode the team
\* stores: the container after the call.  No branch is taken for a tag
\* that is none of the three.
TeamPush(l, mode, v, p, crit, isNegative) ==
  CASE mode = SET -> StackPush(l, ListItem(v, 0))
    [] mode = ROTATE -> QueueAppend(l, ListItem(v, 0))
    [] mode = OPTIMISE -> push(l, v, p, crit, isNegative)
    [] OTHER -> l

\* a call of team 1's push with roster member v, on a team picked alone;
\* the run is followed up to it.  (In OPTIMISE mode the criterion is one of
\* CRITERION_LIST: otherwise the bare combatant is handed to
\* ArraySortedList.add, which is not among the sources.)
Push(v) ==
  /\ phase = "team"
  /\ v \in 1 .. Len(total_team[1])
  /\ team_mode[1] = OPTIMISE => criterion \in Criteria
  /\ \E isNegative \in {1, -1} :
       team' = [team EXCEPT ![1] = TeamPush(@, team_mode[1], v, total_team[1][v],
                                             criterion, isNegative)]
  /\ op' = [name |-> "push", t |-> 1, mode |-> team_mode[1], value |-> v,
            before |-> team[1], count |-> team_count[1]]
  /\ error' = None
  /\ phase' = "pushed"
  /\ UNCHANGED <<battle_mode, criterion, total_team, team_count, pokedex,
                 result, last, extracted, kind, team_mode, reversed, towerVars>>

\* Battle(trainer_1, trainer_2, mode).commence_battle() with a mode tag that
\* is none of the three, over two assembled teams: the else branch raises
CommenceInvalid ==
  /\ phase = "battle" /\ last.n = 0
  /\ battle_mode' = UNKNOWN
  /\ error' = "Exception"
  /\ op' = [name |-> "commence_battle", before |-> team, mode |-> UNKNOWN]
  /\ phase' = "raised"
  /\ UNCHANGED <<criterion, total_team, team, team_count, pokedex, result,
                 last, extracted, kind, team_mode, reversed, towerVars>>

TeamNext ==
  \/ Next
  \/ PickTeam
  \/ \E t \in Trainers : Special(t)
  \/ \E t \in Trainers : \E index \in 0 .. TEAM_LIMIT - 1 : GetItem(t, index)
  \/ \E t \in Trainers : Regenerate(t)
  \/ \E v \in 1 .. MaxRoster : Push(v)
  \/ CommenceInvalid

\* battles as in Spec, with the calls a program can make on a PokeTeam
\* around them
TeamSpec == Init /\ [][TeamNext]_vars

\* ---------------------------------------------------------- BattleTower
MIN_LIVES == 1
MAX_LIVES == 3
\* largest num_teams generate_enemy_trainers is called with
MaxEnemies == 2

\* the teams of a tower run: MaxTeam combatants of one species
TowerRoster(s) == [i \in 1 .. MaxTeam |-> s]

\* random.randint(MIN_LIVES, MAX_LIVES)
Lives == MIN_LIVES .. MAX_LIVES

\* an enemy trainer as the queue holds it: its identity (the position it was
\* generated at) and the fields of the trainer and of its team
EnemyTrainer(id, pokes) ==
  [id |-> id, total_team |-> pokes, team |-> assemble_team(pokes, ROTATE, " "),
   team_count |-> Len(pokes), pokedex |-> TypesOf(pokes),
   kind |-> KindOf(ROTATE), team_mode |-> ROTATE]

\* set_my_trainer(trainer), with a trainer that picked a team and assembled
\* it for ROTATE, and generate_enemy_trainers(num_teams)
TowerSetup ==
  /\ phase = "init"
  /\ \E s \in 1 .. Len(POKE_LIST), lives \in Lives, num_teams \in 1 .. MaxEnemies :
       \E es \in [1 .. num_teams -> 1 .. Len(POKE_LIST)],
          el \in [1 .. num_teams -> Lives] :
         LET mine == EnemyTrainer(0, choose_randomly(TowerRoster(s)))
         IN /\ total_team' = [total_team EXCEPT ![1] = mine.total_team]
            /\ team' = [team EXCEPT ![1] = mine.team]
            /\ team_count' = [team_count EXCEPT ![1] = mine.team_count]
            /\ pokedex' = [pokedex EXCEPT ![1] = mine.pokedex]
            /\ kind' = [kind EXCEPT ![1] = mine.kind]
            /\ team_mode' = [team_mode EXCEPT ![1] = mine.team_mode]
            /\ my_trainer_lives' = lives
            /\ enemy_trainers' = [i \in 1 .. num_teams |->
                                    EnemyTrainer(i, choose_randomly(TowerRoster(es[i])))]
            /\ enemy_lives' = el
            /\ tower' = [n |-> 0, busy |-> FALSE, lives0 |-> el, removed |-> {},
                         my_lives0 |-> lives,
                         lost |-> [i \in 1 .. num_teams |-> 0]]
  /\ lives_taken' = 0
  /\ phase' = "tower"
  /\ UNCHANGED <<battle_mode, criterion, result, last, extracted, reversed, error, op>>

\* BattleTower.battles_remaining
battles_remaining == my_trainer_lives > 0 /\ enemy_trainers # <<>>

\* next_battle, up to the call of commence_battle: the next enemy and its
\* lives are served, both teams are regenerated for ROTATE, and a ROTATE
\* battle of my_trainer (trainer_1) and the enemy (trainer_2) begins.  The
\* caller asks battles_remaining first.
NextBattleBegin ==
  /\ phase = "tower" /\ battles_remaining
  /\ LET enemy_trainer == QueueHead(enemy_trainers)
     IN \E g1 \in {regenerate_team(total_team[1], team[1], kind[1], ROTATE, None)},
           g2 \in {regenerate_team(enemy_trainer.total_team, enemy_trainer.team,
                                   enemy_trainer.kind, ROTATE, None)} :
          /\ total_team' = [t \in Trainers |-> IF t = 1 THEN g1.pokes ELSE g2.pokes]
          /\ team' = [t \in Trainers |-> IF t = 1 THEN g1.team ELSE g2.team]
          /\ kind' = [t \in Trainers |-> IF t = 1 THEN g1.kind ELSE g2.kind]
          /\ team_count' = [team_count EXCEPT ![2] = enemy_trainer.team_count]
          /\ pokedex' = [pokedex EXCEPT ![2] = enemy_trainer.pokedex]
          /\ team_mode' = [team_mode EXCEPT ![2] = enemy_trainer.team_mode]
          /\ tower' = [n |-> tower.n, busy |-> TRUE, lives0 |-> tower.lives0,
                       removed |-> tower.removed, my_lives0 |-> tower.my_lives0,
                       lost |-> tower.lost,
                       enemy |-> enemy_trainer.id,
                       enemy_lives |-> QueueHead(enemy_lives)]
  /\ enemy_trainers' = QueueServe(enemy_trainers)
  /\ enemy_lives' = QueueServe(enemy_lives)
  /\ battle_mode' = ROTATE
  /\ result' = None
  /\ last' = [n |-> 0]
  /\ extracted' = [t \in Trainers |-> <<>>]
  /\ phase' = "battle"
  /\ UNCHANGED <<criterion, reversed, error, op, my_trainer_lives, lives_taken>>

\* "if battle_result == self.my_trainer: ... elif battle_result ==
\* enemy_trainer: ... else: ...": the lives after a battle and what is added
\* to lives_taken
LivesAfterDrawSparesEnemy(battle_result, my_lives, lives) ==
  IF battle_result = TrainerName(1)
    THEN [my_trainer_lives |-> my_lives, enemy_lives |-> lives - 1, taken |-> 1]
  ELSE [my_trainer_lives |-> my_lives - 1, enemy_lives |-> lives, taken |-> 0]

LivesAfter(battle_result, my_lives, lives) ==
  IF battle_result = TrainerName(1)
    THEN [my_trainer_lives |-> my_lives, enemy_lives |-> lives - 1, taken |-> 1]
  ELSE IF battle_result = TrainerName(2)
    THEN [my_trainer_lives |-> my_lives - 1, enemy_lives |-> lives, taken |-> 0]
  ELSE [my_trainer_lives |-> my_lives - 1, enemy_lives |-> lives - 1, taken |-> 0]

\* "if enemy_lives > 0: queue.append(x)"
RequeueNotNegative(queue, x, lives) == IF lives >= 0 THEN QueueAppend(queue, x) ELSE queue
RequeueAlways(queue, x, lives) == QueueAppend(queue, x)
Requeue(queue, x, lives) == IF lives > 0 THEN QueueAppend(queue, x) ELSE queue

\* the ids of the trainers a queue holds, in order
Ids(queue) == [i \in 1 .. Len(queue) |-> queue[i].id]

\* next_battle, from the return of commence_battle on
NextBattleEnd ==
  /\ phase = "done" /\ tower.busy
  /\ LET enemy_trainer == [id |-> tower.enemy, total_team |-> total_team[2],
                           team |-> team[2], team_count |-> team_count[2],
                           pokedex |-> pokedex[2], kind |-> kind[2],
                           team_mode |-> team_mode[2]]
     IN \E a \in {LivesAfter(result, my_trainer_lives, tower.enemy_lives)} :
          /\ my_trainer_lives' = a.my_trainer_lives
          /\ lives_taken' = lives_taken + a.taken
          /\ enemy_trainers' = Requeue(enemy_trainers, enemy_trainer, a.enemy_lives)
          /\ enemy_lives' = Requeue(enemy_lives, a.enemy_lives, a.enemy_lives)
          /\ tower' = [n |-> tower.n + 1, busy |-> FALSE, lives0 |-> tower.lives0,
                       removed |-> IF a.enemy_lives > 0 THEN tower.removed
                                   ELSE tower.removed \cup {tower.enemy},
                       my_lives0 |-> tower.my_lives0,
                       lost |-> [tower.lost EXCEPT ![tower.enemy] =
                                   IF result = TrainerName(2) THEN @ ELSE @ + 1],
                       enemy |-> tower.enemy, enemy_lives |-> tower.enemy_lives,
                       result |-> result, my_before |-> my_trainer_lives,
                       my_after |-> a.my_trainer_lives, after |-> a.enemy_lives,
                       taken_before |-> lives_taken,
                       queue_before |-> Ids(enemy_trainers),
                       lives_before |-> enemy_lives]
  /\ phase' = "tower"
  /\ UNCHANGED <<battle_mode, criterion, total_team, team, team_count, pokedex,
                 result, last, extracted, teamVars>>

TowerNext ==
  \/ TowerSetup
  \/ NextBattleBegin
  \/ RotateBattleLoop
  \/ CommenceReturn
  \/ NextBattleEnd

\* a tower run: "while battles_remaining(): next_battle()"
TowerSpec == Init /\ [][TowerNext]_vars

\* the steps of the run after the set-up
TowerStep == NextBattleBegin \/ RotateBattleLoop \/ CommenceReturn \/ NextBattleEnd

\* the run is one sequential loop: while a step of it is possible, the
\* program takes it
FairTowerSpec == TowerSpec /\ WF_vars(TowerStep)

\* ------------------------------------------- battles of two combatants
\* largest health of a combatant of such a battle
MaxHealth == 10

\* a level-1 combatant of the given health, speed and attack value
Combatant(h, sp, bp) ==
  [health |-> h, original_hp |-> h, level |-> 1, battle_power |-> bp,
   speed |-> sp, defence |-> 1, poketype |-> 1]

\* Battle(trainer_1, trainer_2, mode) over two trainers whose registries are
\* each empty or complete and whose teams, assembled for the mode, hold one
\* combatant each
CreateDuel ==
  /\ phase = "init"
  /\ \E mode \in BattleMode, h1 \in 1 .. MaxHealth, h2 \in 1 .. MaxHealth,
        sp1 \in {3, 5}, sp2 \in {3, 5}, bp1 \in 1 .. 3, bp2 \in 1 .. 3,
        dex1 \in {{}, 1 .. NumPokeTypes}, dex2 \in {{}, 1 .. NumPokeTypes} :
       LET pokes == [t \in Trainers |-> IF t = 1 THEN <<Combatant(h1, sp1, bp1)>>
                                                ELSE <<Combatant(h2, sp2, bp2)>>]
       IN /\ battle_mode' = mode
          /\ total_team' = pokes
          /\ team_count' = [t \in Trainers |-> Len(pokes[t])]
          /\ pokedex' = [t \in Trainers |-> IF t = 1 THEN dex1 ELSE dex2]
          /\ team' = [t \in Trainers |-> assemble_team(pokes[t], mode, criterion)]
          /\ kind' = [t \in Trainers |-> KindOf(mode)]
          /\ team_mode' = [t \in Trainers |-> mode]
  /\ phase' = "battle"
  /\ UNCHANGED <<criterion, result, last, extracted, reversed, error, op, towerVars>>

DuelNext ==
  \/ CreateDuel
  \/ SetBattleLoop
  \/ RotateBattleLoop
  \/ OptimiseBattleLoop
  \/ CommenceReturn

\* battles of two single-combatant teams
DuelSpec == Init /\ [][DuelNext]_vars

\* ------------------------------------------------- battles of a squad
\* the size of trainer one's team in such a battle (at most TEAM_LIMIT)
MaxSquad == 3
Squads == [1 .. MaxSquad -> 1 .. Len(POKE_LIST)]

\* Battle(trainer_1, trainer_2, battle_mode, criterion) and _create_teams,
\* where trainer one picks MaxSquad combatants
CreateSquads ==
  /\ phase = "init"
  /\ \E mode \in BattleMode, r1 \in Squads, r2 \in Rosters :
       \E crit \in (IF mode = OPTIMISE
                      THEN { CRITERION_LIST[i] : i \in 1 .. Len(CRITERION_LIST) }
                      ELSE {"health"}) :
         LET pokes == [t \in Trainers |-> choose_randomly(IF t = 1 THEN r1 ELSE r2)]
         IN /\ battle_mode' = mode
            /\ criterion' = crit
            /\ total_team' = pokes
            /\ team_count' = [t \in Trainers |-> Len(pokes[t])]
            /\ pokedex' = [t \in Trainers |-> TypesOf(pokes[t])]
            /\ team' = [t \in Trainers |-> assemble_team(pokes[t], mode, crit)]
            /\ kind' = [t \in Trainers |-> KindOf(mode)]
            /\ team_mode' = [t \in Trainers |-> mode]
  /\ phase' = "battle"
  /\ UNCHANGED <<result, last, extracted, reversed, error, op, towerVars>>

SquadNext ==
  \/ CreateSquads
  \/ SetBattleLoop
  \/ RotateBattleLoop
  \/ OptimiseBattleLoop
  \/ CommenceReturn

SquadSpec == Init /\ [][SquadNext]_vars

\* =================================================================== claims
\* the combatant an entry of team t's container stands for
Member(t, i) == total_team[t][team[t][i].value]

\* how many entries of team t's container hold roster member v
Occurrences(t, v) == Cardinality({ i \in 1 .. Len(team[t]) : team[t][i].value = v })

\* how many alive combatants team t's container holds
AliveHeld(t) == Cardinality({ i \in 1 .. Len(team[t]) : is_alive(Member(t, i)) })

\* team t holds nothing and counts nothing
TeamEmpty(t) == team[t] = <<>> /\ team_count[t] = 0

\* an exchange has taken place
Exchanged == last.n >= 1

\* C1: when commence_battle returns, in every mode, the result is None exactly
\* when both teams are empty, and otherwise it is the trainer whose team is
\* not empty (the other team being empty).
C1_Outcome ==
  phase = "done" =>
    /\ (result = None) <=> (TeamEmpty(1) /\ TeamEmpty(2))
    /\ (result = TrainerName(1)) <=> (~TeamEmpty(1) /\ TeamEmpty(2))
    /\ (result = TrainerName(2)) <=> (TeamEmpty(1) /\ ~TeamEmpty(2))
    /\ result \in {None, TrainerName(1), TrainerName(2)}

\* two single-combatant teams fainted in the same exchange: a draw, both
\* live counts 0
C1_Witness ==
  /\ phase = "done" /\ result = None
  /\ Len(total_team[1]) = 1 /\ Len(total_team[2]) = 1
  /\ Exchanged /\ ~is_alive(last.r.P1) /\ ~is_alive(last.r.P2)
  /\ is_alive(last.r.pre1) /\ is_alive(last.r.pre2)
  /\ team_count[1] = 0 /\ team_count[2] = 0

\* how many combatants of team t's roster are dead
Dead(t) == Cardinality({ i \in 1 .. Len(total_team[t]) : ~is_alive(total_team[t][i]) })

\* C2: at every iteration boundary of a battle, in every mode, each team's
\* team_count is the number of alive combatants its container holds, and an
\* exchange takes one off the count of a team exactly when that team's
\* combatant died in it, so the count is the roster size less the dead.
C2_LiveCount ==
  /\ \A t \in Trainers :
       /\ team_count[t] = AliveHeld(t)
       /\ team_count[t] = Len(total_team[t]) - Dead(t)
  /\ Exchanged =>
       /\ team_count[1] = last.count1 - (IF is_alive(last.r.P1) THEN 0 ELSE 1)
       /\ team_count[2] = last.count2 - (IF is_alive(last.r.P2) THEN 0 ELSE 1)

\* an exchange in which one combatant died and the other survived, with a
\* combatant still waiting in a container
C2_Witness ==
  /\ Exchanged
  /\ is_alive(last.r.P1) /\ ~is_alive(last.r.P2)
  /\ team_count[1] = last.count1 /\ team_count[2] = last.count2 - 1
  /\ team_count[1] >= 2 /\ team_count[2] >= 1

\* C3: at every iteration boundary a roster member is in its team's container
\* exactly once when alive and not at all when dead; an exchange shrinks a
\* container by one when the extracted combatant died and leaves its size
\* unchanged otherwise, so a container never outgrows TEAM_LIMIT.
C3_NoLossNoDuplicate ==
  /\ \A t \in Trainers :
       /\ \A v \in 1 .. Len(total_team[t]) :
            Occurrences(t, v) = (IF is_alive(total_team[t][v]) THEN 1 ELSE 0)
       /\ \A i \in 1 .. Len(team[t]) : team[t][i].value \in 1 .. Len(total_team[t])
       /\ Len(team[t]) <= TEAM_LIMIT
  /\ Exchanged =>
       /\ Len(team[1]) = last.size1 - (IF is_alive(last.r.P1) THEN 0 ELSE 1)
       /\ Len(team[2]) = last.size2 - (IF is_alive(last.r.P2) THEN 0 ELSE 1)

\* an exchange after which one team got its combatant back beside another
\* one and the other team lost its combatant
C3_Witness ==
  /\ Exchanged
  /\ is_alive(last.r.P2) /\ ~is_alive(last.r.P1)
  /\ Len(team[2]) = last.size2 /\ Len(team[2]) >= 2
  /\ Len(team[1]) = last.size1 - 1

\* the health two combatants have together
Combined(A, B) == A.health + B.health

\* the last exchange killed a combatant, or left both alive with less health
\* together than they had before it
ExchangeProgress ==
  Exchanged =>
    \/ ~is_alive(last.r.P1)
    \/ ~is_alive(last.r.P2)
    \/ Combined(last.r.P1, last.r.P2) < Combined(last.r.pre1, last.r.pre2)

\* C4: every battle terminates, in every mode: each exchange kills one of the
\* two combatants or leaves both alive with strictly less combined health
\* (one health each at least, also when no attack deals damage), and
\* commence_battle returns in the end.
C4_Terminates == [](ExchangeProgress) /\ (phase = "battle" ~> phase = "done")

\* a battle that returned after exchanges in which no attack dealt damage:
\* only the health taken off after the attacks ended it
C4_Witness ==
  /\ phase = "done" /\ last.n >= 2
  /\ last.r.dmg1 = 0 /\ last.r.dmg2 = 0 /\ last.r.grind
  /\ Combined(last.r.P1, last.r.P2) = Combined(last.r.pre1, last.r.pre2) - 2

\* C5: in an exchange between combatants of different speed the faster one
\* attacks first (the slower one's health after the attacks is its health
\* before less the damage of that attack) and the slower one counter-attacks
\* exactly when it is alive after that hit; when the first strike kills, the
\* faster one's health is the same after the exchange as before it.
C5_FasterFirst ==
  Exchanged =>
    LET r == last.r IN
    /\ r.pre1.speed > r.pre2.speed =>
         /\ r.first = "P1"
         /\ r.dmg2 = EffectiveDamage(r.pre1.battle_power, r.c1, r.c2)
         /\ r.mid2.health = r.pre2.health - r.dmg2
         /\ r.countered <=> r.mid2.health > 0
         /\ r.countered => r.mid1.health = r.pre1.health - r.dmg1
         /\ ~r.countered => r.mid1.health = r.pre1.health /\ r.P1.health = r.pre1.health
    /\ r.pre2.speed > r.pre1.speed =>
         /\ r.first = "P2"
         /\ r.dmg1 = EffectiveDamage(r.pre2.battle_power, r.c2, r.c1)
         /\ r.mid1.health = r.pre1.health - r.dmg1
         /\ r.countered <=> r.mid1.health > 0
         /\ r.countered => r.mid2.health = r.pre2.health - r.dmg2
         /\ ~r.countered => r.mid2.health = r.pre2.health /\ r.P2.health = r.pre2.health

\* the faster combatant killed the slower one, which would have hurt it
C5_Witness ==
  /\ Exchanged
  /\ last.r.pre1.speed > last.r.pre2.speed
  /\ ~is_alive(last.r.mid2) /\ ~last.r.countered
  /\ last.r.pre2.battle_power > 0
  /\ last.r.P1.health = last.r.pre1.health

\* C6: in an exchange between combatants of equal speed the damage passed to
\* combatant 2 comes from combatant 1's attack value and the damage passed to
\* combatant 1 from combatant 2's attack value.
C6_OwnAttackValue ==
  (Exchanged /\ last.r.pre1.speed = last.r.pre2.speed) =>
    /\ last.r.dmg2 = EffectiveDamage(attack(last.r.pre1, last.r.pre2), last.r.c1, last.r.c2)
    /\ last.r.dmg1 = EffectiveDamage(attack(last.r.pre2, last.r.pre1), last.r.c2, last.r.c1)

\* C7: after the attacks, a lone survivor gains one level and no health is
\* taken off either combatant; when both are alive each loses exactly 1
\* health, a lone survivor of that gains one level, and when both are still
\* alive no level changes.
C7_LevelAndGrind ==
  Exchanged =>
    LET r == last.r
        GrindOnly == /\ r.P1.health = r.mid1.health - 1
                     /\ r.P2.health = r.mid2.health - 1
    IN
    /\ (is_alive(r.mid1) /\ ~is_alive(r.mid2)) =>
         /\ r.P1.level = r.pre1.level + 1 /\ r.P2.level = r.pre2.level
         /\ r.P1.health = r.mid1.health /\ r.P2.health = r.mid2.health
    /\ (is_alive(r.mid2) /\ ~is_alive(r.mid1)) =>
         /\ r.P2.level = r.pre2.level + 1 /\ r.P1.level = r.pre1.level
         /\ r.P1.health = r.mid1.health /\ r.P2.health = r.mid2.health
    /\ (is_alive(r.mid1) /\ is_alive(r.mid2)) =>
         /\ GrindOnly
         /\ (is_alive(r.P1) /\ ~is_alive(r.P2)) =>
              r.P1.level = r.pre1.level + 1 /\ r.P2.level = r.pre2.level
         /\ (is_alive(r.P2) /\ ~is_alive(r.P1)) =>
              r.P2.level = r.pre2.level + 1 /\ r.P1.level = r.pre1.level
         /\ (is_alive(r.P1) /\ is_alive(r.P2)) =>
              r.P1.level = r.pre1.level /\ r.P2.level = r.pre2.level

\* both combatants outlived the attacks and the health taken off afterwards
\* killed one of them: the other one gained a level
C7_Witness ==
  /\ Exchanged
  /\ is_alive(last.r.mid1) /\ is_alive(last.r.mid2)
  /\ is_alive(last.r.P1) /\ ~is_alive(last.r.P2)
  /\ last.r.P1.level = last.r.pre1.level + 1

\* C8: when both combatants are dead at the end of an exchange, neither
\* one's level has changed and both teams' live counts went down by 1.
C8_NoLevelForTheDead ==
  (Exchanged /\ ~is_alive(last.r.P1) /\ ~is_alive(last.r.P2)) =>
    /\ last.r.P1.level = last.r.pre1.level
    /\ last.r.P2.level = last.r.pre2.level
    /\ team_count[1] = last.count1 - 1
    /\ team_count[2] = last.count2 - 1

\* the attack value behind the damage passed to combatant 1 and combatant 2
\* in the last exchange, as battle takes it
AttackPointOn1 == attack(last.r.pre2, last.r.pre1)
AttackPointOn2 ==
  IF last.r.first = "both" THEN attack(last.r.pre2, last.r.pre1)
  ELSE attack(last.r.pre1, last.r.pre2)

\* C9: the damage passed to the defender for raw power p is the exact ceiling
\* of p * cA / cB: p itself when cA = cB, at least p when cA > cB.
C9_ExactCeiling ==
  Exchanged =>
    /\ last.r.dmg1 >= 0 =>
         /\ last.r.dmg1 = Ceil(AttackPointOn1 * last.r.c2, last.r.c1)
         /\ last.r.c2 = last.r.c1 => last.r.dmg1 = AttackPointOn1
         /\ last.r.c2 > last.r.c1 => last.r.dmg1 >= AttackPointOn1
    /\ last.r.dmg2 >= 0 =>
         /\ last.r.dmg2 = Ceil(AttackPointOn2 * last.r.c1, last.r.c2)
         /\ last.r.c1 = last.r.c2 => last.r.dmg2 = AttackPointOn2
         /\ last.r.c1 > last.r.c2 => last.r.dmg2 >= AttackPointOn2

\* the combatants of team t that were in its queue before its i-th extraction
InQueueAt(t, i) ==
  { v \in 1 .. Len(total_team[t]) :
      \A k \in 1 .. (i - 1) : ~(extracted[t][k].value = v /\ ~extracted[t][k].alive) }

\* the i-th and the j-th extraction from team t are consecutive extractions
\* of the same combatant
Consecutive(t, i, j) ==
  /\ i < j
  /\ extracted[t][i].value = extracted[t][j].value
  /\ \A k \in (i + 1) .. (j - 1) : extracted[t][k].value # extracted[t][i].value

\* C10: in ROTATE mode, between two consecutive extractions of a combatant
\* every other combatant in its team's queue is extracted exactly once.
C10_RoundRobin ==
  battle_mode = ROTATE =>
    \A t \in Trainers : \A i, j \in 1 .. Len(extracted[t]) :
      Consecutive(t, i, j) =>
        \A v \in InQueueAt(t, i) \ {extracted[t][i].value} :
          Cardinality({ k \in (i + 1) .. (j - 1) : extracted[t][k].value = v }) = 1

\* a combatant was extracted again after its team mate had its turn
C10_Witness ==
  /\ battle_mode = ROTATE
  /\ \E t \in Trainers : \E i, j \in 1 .. Len(extracted[t]) :
       /\ Consecutive(t, i, j)
       /\ j > i + 1

\* the absolute value of an integer
Abs(x) == IF x < 0 THEN -x ELSE x

\* C11: in OPTIMISE mode, at every iteration boundary, the entry the next
\* extraction returns has the least stored key, and the absolute value of
\* every stored key is the current value of the team's criterion for its
\* combatant; in particular a survivor put back is keyed by its stat after
\* the exchange.
C11_MinKeyAndCurrentStat ==
  (phase \in {"battle", "done"} /\ battle_mode = OPTIMISE) =>
    /\ \A t \in Trainers :
         /\ \A i \in 1 .. Len(team[t]) :
              /\ Abs(team[t][i].key) = Stat(Member(t, i), criterion)
              /\ SortedFirst(team[t]).key <= team[t][i].key
    /\ Exchanged =>
         /\ is_alive(last.r.P1) =>
              \E i \in 1 .. Len(team[1]) :
                /\ team[1][i].value = last.v1
                /\ Abs(team[1][i].key) = Stat(last.r.P1, criterion)
         /\ is_alive(last.r.P2) =>
              \E i \in 1 .. Len(team[2]) :
                /\ team[2][i].value = last.v2
                /\ Abs(team[2][i].key) = Stat(last.r.P2, criterion)

\* a survivor whose stat changed in the exchange was put back, behind an
\* entry of a smaller key
C11_Witness ==
  /\ phase = "battle" /\ battle_mode = OPTIMISE /\ Exchanged
  /\ is_alive(last.r.P1)
  /\ Stat(last.r.P1, criterion) # Stat(last.r.pre1, criterion)
  /\ \E i \in 2 .. Len(team[1]) : team[1][i].value = last.v1

\* the key of the entry of team t's container that holds roster member v
KeyOf(t, v) == team[t][CHOOSE i \in 1 .. Len(team[t]) : team[t][i].value = v].key

\* C12: in OPTIMISE mode a survivor extracted with a negative key is put back
\* with a negated key and any other survivor with a plain one; so a team
\* whose ranking special() has reversed holds no strictly positive key at any
\* iteration boundary of the battle, and a team whose ranking is not reversed
\* holds no negative key.
C12_SignKept ==
  (phase \in {"battle", "done"} /\ battle_mode = OPTIMISE) =>
    /\ \A t \in Trainers : \A i \in 1 .. Len(team[t]) :
         IF reversed[t] THEN team[t][i].key <= 0 ELSE team[t][i].key >= 0
    /\ (Exchanged /\ is_alive(last.r.P1)) =>
         KeyOf(1, last.v1) = (IF last.key1 < 0 THEN -1 ELSE 1) * Stat(last.r.P1, criterion)
    /\ (Exchanged /\ is_alive(last.r.P2)) =>
         KeyOf(2, last.v2) = (IF last.key2 < 0 THEN -1 ELSE 1) * Stat(last.r.P2, criterion)

\* a survivor of a reversed team was put back with a negative key, next to
\* another entry, and the other team was never reversed
C12_Witness ==
  /\ phase = "battle" /\ battle_mode = OPTIMISE /\ Exchanged
  /\ reversed[1] /\ ~reversed[2]
  /\ is_alive(last.r.P1) /\ last.key1 < 0
  /\ KeyOf(1, last.v1) < 0
  /\ Len(team[1]) >= 2 /\ team[2] # <<>>

\* how many entries of a container hold roster member v
CountIn(l, v) == Cardinality({ i \in 1 .. Len(l) : l[i].value = v })

\* two containers hold the same combatants, each as often
SameMembers(l1, l2) ==
  /\ Len(l1) = Len(l2)
  /\ \A i \in 1 .. Len(l1) : CountIn(l1, l1[i].value) = CountIn(l2, l1[i].value)

\* C13: after special(), in SET, ROTATE and OPTIMISE mode and for every
\* size of the team, the container holds exactly the combatants it held
\* before, each as often, and team_count is what it was.
C13_SpecialKeepsMembers ==
  (op.name = "special" /\ op.mode \in BattleMode) =>
    /\ SameMembers(team[op.t], op.before)
    /\ team_count[op.t] = op.count

\* special() rearranged a team of an odd size of 3 or more
C13_Witness ==
  /\ op.name = "special" /\ op.mode = ROTATE
  /\ Len(op.before) % 2 = 1 /\ Len(op.before) >= 3
  /\ team[op.t] # op.before

\* C14: an indexed read team[i] with a valid index leaves the container as
\* it was, in every mode: the same combatants, the same number of entries,
\* the same extraction order; also for a ROTATE team that holds fewer
\* combatants than TEAM_LIMIT.
C14_ReadKeepsTeam ==
  op.name = "getitem" =>
    /\ team[op.t] = op.before
    /\ op.value = (IF kind[op.t] = ArrayStack
                     THEN op.before[Len(op.before) - op.index].value
                     ELSE op.before[op.index + 1].value)

\* C15: after regenerate_team(mode, criterion), with a criterion of
\* CRITERION_LIST in OPTIMISE mode, whatever the battles before did: every
\* roster member's health is its original health, and the new container
\* holds every roster member once, in roster order for SET (pushed) and
\* ROTATE (appended), ascending by the criterion's stat for OPTIMISE.
C15_Regenerated ==
  (/\ op.name = "regenerate_team"
   /\ op.mode \in BattleMode
   /\ op.mode = OPTIMISE => op.criterion \in Criteria) =>
    LET t == op.t
        n == Len(total_team[t])
    IN /\ \A i \in 1 .. n : total_team[t][i].health = total_team[t][i].original_hp
       /\ Len(team[t]) = n
       /\ \A v \in 1 .. n : CountIn(team[t], v) = 1
       /\ op.mode \in {SET, ROTATE} =>
            \A i \in 1 .. n : team[t][i].value = i
       /\ op.mode = SET => \A i \in 1 .. n : StackTop(SubSeq(team[t], 1, i)).value = i
       /\ op.mode = OPTIMISE =>
            /\ \A i \in 1 .. n : team[t][i].key = Stat(Member(t, i), op.criterion)
            /\ \A i \in 1 .. n - 1 : team[t][i].key <= team[t][i + 1].key

\* a team was regenerated after a battle in which one of its combatants
\* died and another was hurt
C15_Witness ==
  /\ op.name = "regenerate_team" /\ op.mode = OPTIMISE /\ op.criterion = "health"
  /\ Exchanged
  /\ \E i, j \in 1 .. Len(op.pokes) :
       /\ op.pokes[i].health <= 0
       /\ op.pokes[j].health > 0 /\ op.pokes[j].health < op.pokes[j].original_hp
  /\ Len(op.before) < Len(team[op.t])

\* C17: assembling or regenerating a team in OPTIMISE mode under a criterion
\* that is none of health, defence, battle_power, speed, level raises an
\* error, and does not leave the team with an empty or unranked container
\* while its live count is positive.
C17_InvalidCriterionSurfaces ==
  (/\ op.name \in {"assemble_team", "regenerate_team"}
   /\ op.mode = OPTIMISE
   /\ op.criterion \notin Criteria) =>
    /\ error # None
    /\ ~(/\ team_count[op.t] > 0
         /\ team[op.t] = <<>> \/ kind[op.t] # ArraySortedList)

\* C18: with a mode tag that is none of SET, ROTATE, OPTIMISE, running a
\* battle, assembling a team and push each raise an error, and the
\* container is what it was before the call.
C18_UnknownModeFatal ==
  (op.name \in {"commence_battle", "assemble_team", "push"} /\ op.mode = UNKNOWN) =>
    /\ error # None
    /\ IF op.name = "commence_battle" THEN team = op.before
                                       ELSE team[op.t] = op.before

\* a next_battle call has returned
Battled == phase = "tower" /\ tower.n >= 1

\* C16: per next_battle call.  An enemy that loses (the result is my
\* trainer) has exactly one life less, and is appended to the tail of the
\* queue, with its lives, if and only if at least one life is left; an enemy
\* left without a life is in the queue neither then nor ever after.  An
\* enemy that wins keeps its lives and is requeued, and my trainer has
\* exactly one life less.  On a draw both have exactly one life less.
C16_LifeAccounting ==
  /\ Battled =>
       /\ tower.result = TrainerName(1) =>
            tower.after = tower.enemy_lives - 1 /\ tower.my_after = tower.my_before
       /\ tower.result = TrainerName(2) =>
            tower.after = tower.enemy_lives /\ tower.my_after = tower.my_before - 1
       /\ tower.result = None =>
            tower.after = tower.enemy_lives - 1 /\ tower.my_after = tower.my_before - 1
       /\ my_trainer_lives = tower.my_after
       /\ IF tower.after >= 1
            THEN /\ Ids(enemy_trainers) = Append(tower.queue_before, tower.enemy)
                 /\ enemy_lives = Append(tower.lives_before, tower.after)
            ELSE /\ Ids(enemy_trainers) = tower.queue_before
                 /\ enemy_lives = tower.lives_before
                 /\ tower.enemy \in tower.removed
  /\ phase \in {"tower", "battle", "done"} =>
       /\ \A i \in 1 .. Len(enemy_trainers) : enemy_trainers[i].id \notin tower.removed
       /\ tower.busy => tower.enemy \notin tower.removed

\* an enemy that began with 2 lives has lost its second battle and is gone,
\* while another enemy waits in the queue
C16_Witness ==
  /\ Battled
  /\ tower.result = TrainerName(1)
  /\ tower.lives0[tower.enemy] = 2 /\ tower.after = 0
  /\ tower.enemy \in tower.removed
  /\ enemy_trainers # <<>>

\* trainer one's only combatant is A (health 10, speed 5, attack 3), trainer
\* two's is B (health 10, speed 3, attack 3), and both registries are complete
DuelOfAAndB ==
  /\ phase \in {"battle", "done"}
  /\ Len(total_team[1]) = 1 /\ Len(total_team[2]) = 1
  /\ total_team[1][1].original_hp = 10 /\ total_team[1][1].speed = 5
  /\ total_team[1][1].battle_power = 3
  /\ total_team[2][1].original_hp = 10 /\ total_team[2][1].speed = 3
  /\ total_team[2][1].battle_power = 3
  /\ get_pokedex_completion(pokedex[1]) = 100
  /\ get_pokedex_completion(pokedex[2]) = 100

\* C19: in the battle of A and B, in every mode, every landed attack deals
\* exactly 3; an exchange both survive costs each one more health (10 -> 7
\* -> 6 in the first, 6 -> 3 -> 2 in the second); in the third exchange A
\* strikes first and B faints without countering; A levels up exactly once,
\* B never; there is no fourth exchange and trainer one wins.
C19_DuelOfAAndB ==
  DuelOfAAndB =>
    LET A == total_team[1][1]
        B == total_team[2][1]
    IN /\ last.n <= 3
       /\ last.n = 0 => A.health = 10 /\ B.health = 10 /\ A.level = 1 /\ B.level = 1
       /\ Exchanged =>
            /\ last.r.first = "P1" /\ last.r.dmg2 = 3
            /\ last.r.countered => last.r.dmg1 = 3
       /\ last.n = 1 =>
            /\ last.r.mid1.health = 7 /\ last.r.mid2.health = 7 /\ last.r.grind
            /\ A.health = 6 /\ B.health = 6 /\ A.level = 1 /\ B.level = 1
       /\ last.n = 2 =>
            /\ last.r.mid1.health = 3 /\ last.r.mid2.health = 3 /\ last.r.grind
            /\ A.health = 2 /\ B.health = 2 /\ A.level = 1 /\ B.level = 1
       /\ last.n = 3 =>
            /\ ~last.r.countered /\ ~last.r.grind
            /\ ~is_alive(B) /\ is_alive(A) /\ A.health = 2
            /\ A.level = 2 /\ B.level = 1
       /\ phase = "done" => last.n = 3 /\ result = TrainerName(1)

\* the battle of A and B has returned
C19_Witness ==
  /\ DuelOfAAndB /\ phase = "done" /\ battle_mode = SET
  /\ last.n = 3 /\ result = TrainerName(1)
  /\ total_team[1][1].level = 2 /\ ~is_alive(total_team[2][1])

\* C20: across a tower run, when a battle begins and at each of its
\* iteration boundaries, the live count of each team is the number of alive
\* combatants its container holds, and no live count is negative.
C20_TowerLiveCount ==
  phase = "battle" =>
    \A t \in Trainers : team_count[t] = AliveHeld(t) /\ team_count[t] >= 0

\* ------------------------------------------------------------ registries
\* the registries grow and the completion ratios do not decrease
RegistriesGrow ==
  \A t \in Trainers :
    /\ pokedex[t] \subseteq pokedex'[t]
    /\ get_pokedex_completion(pokedex[t]) <= get_pokedex_completion(pokedex'[t])

\* C21: in every iteration of the battle loop, in every mode, each of the two
\* extracted combatants is in the opposing trainer's registry when the damage
\* of the exchange is computed (the ratios the damage used are the ratios of
\* the registries holding them), whatever the outcome of the exchange; during
\* a battle a registry only grows and its completion ratio never decreases.
C21_RegisteredBeforeDamage ==
  /\ [](Exchanged =>
          /\ total_team[2][last.v2].poketype \in pokedex[1]
          /\ total_team[1][last.v1].poketype \in pokedex[2]
          /\ last.r.c1 = get_pokedex_completion(pokedex[1])
          /\ last.r.c2 = get_pokedex_completion(pokedex[2]))
  /\ [][phase = "battle" => RegistriesGrow]_vars

\* the first exchange met a type new to trainer 1, whose ratio rose, and
\* killed the combatant of that type
C21_Witness ==
  /\ last.n = 1
  /\ total_team[2][last.v2].poketype \notin TypesOf(total_team[1])
  /\ ~is_alive(last.r.P2)
  /\ last.r.c1 > get_pokedex_completion(TypesOf(total_team[1]))

\* C22: no damage computation meets a zero completion ratio: battle never
\* raises ZeroDivisionError, and both ratios an exchange used are strictly
\* positive, also between trainers whose registries were empty before the
\* battle.
C22_NoZeroCompletion ==
  /\ error # "ZeroDivisionError"
  /\ Exchanged => last.r.c1 > 0 /\ last.r.c2 > 0

\* the first exchange of two trainers whose registries were empty: each
\* holds the one type it has just met
C22_Witness ==
  /\ last.n = 1
  /\ pokedex[1] = {total_team[2][last.v2].poketype}
  /\ pokedex[2] = {total_team[1][last.v1].poketype}
  /\ last.r.c1 = Round2(1, NumPokeTypes)

\* ------------------------------------------------------------- SET order
\* C23: in SET mode a combatant that survives an exchange is on top of its
\* team's stack after the exchange and is the combatant extracted from that
\* team in the next exchange; the combatant extracted next differs from the
\* current one only when the current one has died.
C23_SurvivorStaysOnTop ==
  battle_mode = SET =>
    \A t \in Trainers :
      /\ \A i \in 1 .. (Len(extracted[t]) - 1) :
           extracted[t][i].alive <=> extracted[t][i + 1].value = extracted[t][i].value
      /\ (extracted[t] # <<>> /\ extracted[t][Len(extracted[t])].alive) =>
           /\ team[t] # <<>>
           /\ StackTop(team[t]).value = extracted[t][Len(extracted[t])].value

\* a combatant survived an exchange, was extracted again and died, and the
\* one below it was extracted next
C23_Witness ==
  /\ battle_mode = SET
  /\ \E t \in Trainers : \E i \in 1 .. (Len(extracted[t]) - 2) :
       /\ extracted[t][i].alive
       /\ extracted[t][i + 1].value = extracted[t][i].value
       /\ ~extracted[t][i + 1].alive
       /\ extracted[t][i + 2].value # extracted[t][i].value

\* ---------------------------------------------------------------- special
\* the last call from outside a battle was special(mode) on a team
\* assembled in that mode
Specialled(mode) == op.name = "special" /\ op.mode = mode

\* C24: special() in SET mode on a stack of n combatants reverses the order
\* of the n \div 2 entries nearest the top and leaves every entry below them
\* (the middle one included when n is odd) at its position.
C24_SetSpecialReversesTopHalf ==
  Specialled(SET) =>
    LET n == Len(op.before)
        h == n \div 2
    IN /\ Len(team[op.t]) = n
       /\ \A i \in 1 .. (n - h) : team[op.t][i] = op.before[i]
       /\ \A j \in 1 .. h : team[op.t][n - h + j] = op.before[n + 1 - j]

\* special() was called on a stack of at least four combatants, whose two
\* top entries changed places
C24_Witness ==
  /\ Specialled(SET)
  /\ Len(op.before) >= 4
  /\ StackTop(team[op.t]) # StackTop(op.before)
  /\ StackTop(team[op.t]) = op.before[Len(op.before) - (Len(op.before) \div 2) + 1]

\* the position of entry x in container l
PosIn(l, x) == CHOOSE i \in 1 .. Len(l) : l[i] = x

PosOf(l, v) == CHOOSE i \in 1 .. Len(l) : l[i].value = v

\* C26: special() in OPTIMISE mode gives every entry the negation of its key
\* and leaves the container sorted ascending by the new keys, so two entries
\* of distinct keys are extracted in the opposite order and the first
\* extraction returns an entry that had the maximum key before the call.
C26_OptimiseSpecialNegates ==
  Specialled(OPTIMISE) =>
    LET b == op.before
        a == team[op.t]
        n == Len(op.before)
    IN /\ Len(a) = n
       /\ \A i \in 1 .. n : \E j \in 1 .. n :
            a[j].value = b[i].value /\ a[j].key = -b[i].key
       /\ \A i, j \in 1 .. n : i < j => a[i].key <= a[j].key
       /\ \A i, j \in 1 .. n :
            b[i].key < b[j].key => PosOf(a, b[j].value) < PosOf(a, b[i].value)
       /\ n > 0 => \A i \in 1 .. n : b[i].key <= -SortedFirst(a).key

\* special() was called on a sorted list of at least three entries whose
\* keys differ: the entry that was last is first
C26_Witness ==
  /\ Specialled(OPTIMISE)
  /\ Len(op.before) >= 3
  /\ op.before[1].key < op.before[Len(op.before)].key
  /\ SortedFirst(team[op.t]).value = op.before[Len(op.before)].value
  /\ SortedFirst(team[op.t]).key = -op.before[Len(op.before)].key

\* ------------------------------------------------------------------ tower
\* BattleTower.enemies_defeated
enemies_defeated == lives_taken

\* C27: between next_battle calls enemies_defeated() is the number of
\* challengers eliminated from the queue for good.
C27_CountsEliminated ==
  phase = "tower" => enemies_defeated = Cardinality(tower.removed)

\* the sum of the life counts a queue holds
RECURSIVE SumLives(_)
SumLives(q) == IF q = <<>> THEN 0 ELSE QueueHead(q) + SumLives(QueueServe(q))

\* the lives in the tower: the defender's and those of the queued challengers
TotalLives == my_trainer_lives + SumLives(enemy_lives)

\* the lives in the tower when the last next_battle was called
TotalLivesBefore == tower.my_before + tower.enemy_lives + SumLives(tower.lives_before)

\* the lives in the tower after generate_enemy_trainers
TotalLivesAtFirst ==
  tower.my_lives0 + SumLives([i \in 1 .. Len(tower.lives0) |-> tower.lives0[i]])

\* what a finished next_battle call has done to the lives in the tower
LivesFell ==
  Battled =>
    /\ TotalLives = TotalLivesBefore - (IF tower.result = None THEN 2 ELSE 1)
    /\ tower.n + TotalLives <= TotalLivesAtFirst

\* C28: the tower ladder ends.  Every next_battle call lowers the sum of the
\* defender's lives and the queued challengers' lives, by 1 when one side won
\* and by 2 on a draw; the number of calls never exceeds the sum the tower
\* began with; a call guarded by battles_remaining() finds a challenger in
\* the queue; and the run reaches a state where battles_remaining() is false.
C28_LadderTerminates ==
  /\ [][LivesFell']_vars
  /\ [][phase = "tower" /\ phase' = "battle" =>
          /\ enemy_trainers # <<>> /\ enemy_lives # <<>>
          /\ my_trainer_lives > 0]_vars
  /\ (phase = "tower" ~> (phase = "tower" /\ ~battles_remaining))

\* a run of at least three battles, one of them a draw, has ended with the
\* defender out of lives while a challenger still waits
C28_Witness ==
  /\ Battled
  /\ tower.n >= 3
  /\ tower.n + TotalLives < TotalLivesAtFirst
  /\ ~battles_remaining
  /\ my_trainer_lives = 0 /\ enemy_trainers # <<>>

\* C29: after generate_enemy_trainers and after every next_battle (and while
\* a battle runs) the challenger queue and the lives queue have the same
\* length, the i-th life count is the one of the i-th queued challenger (the
\* lives it was generated with less those it has lost), every queued life
\* count is between MIN_LIVES and MAX_LIVES, and the defender's life count is
\* not negative.
C29_QueuesAligned ==
  phase \in {"tower", "battle", "done"} =>
    /\ Len(enemy_trainers) = Len(enemy_lives)
    /\ \A i \in 1 .. Len(enemy_trainers) :
         /\ i <= Len(enemy_lives)
         /\ enemy_lives[i] = tower.lives0[enemy_trainers[i].id]
                               - tower.lost[enemy_trainers[i].id]
    /\ \A i \in 1 .. Len(enemy_lives) : enemy_lives[i] \in MIN_LIVES .. MAX_LIVES
    /\ my_trainer_lives >= 0

\* the challenger generated first has lost a life and waits behind the one
\* generated second, with a different life count, and the defender has none
\* left
C29_Witness ==
  /\ Battled
  /\ Ids(enemy_trainers) = <<2, 1>>
  /\ tower.lost[1] >= 1
  /\ enemy_lives[1] # enemy_lives[2]
  /\ my_trainer_lives = 0

\* ------------------------------------------------------------------ frame
\* the roster indices of the entries of container l other than v, in the
\* order of the container
RECURSIVE Others(_, _)
Others(l, v) ==
  IF l = <<>> THEN <<>>
  ELSE IF l[1].value = v THEN Others(Tail(l), v)
  ELSE <<l[1].value>> \o Others(Tail(l), v)

\* the step is an exchange that ran to its end
ExchangeStep == phase = "battle" /\ last'.n = last.n + 1

\* what an exchange that extracted v from team t leaves alone
FrameOf(t, v) ==
  /\ \A i \in 1 .. Len(total_team[t]) :
       i # v => /\ total_team'[t][i].health = total_team[t][i].health
                /\ total_team'[t][i].level = total_team[t][i].level
  /\ Others(team'[t], v) = Others(team[t], v)

\* C30: an exchange changes only the two extracted combatants: in every mode
\* the health and the level of every other combatant are the same after the
\* exchange, and the combatants that were not extracted are held in the same
\* relative extraction order as before it.
C30_ExchangeFrame ==
  [][ExchangeStep => FrameOf(1, last'.v1) /\ FrameOf(2, last'.v2)]_vars

\* after an exchange trainer one's survivor, which lost health, is held with
\* the two combatants that stayed in the container and are as they were
\* picked
C30_Witness ==
  /\ Exchanged
  /\ phase = "battle"
  /\ Len(team[1]) = 3
  /\ is_alive(last.r.P1)
  /\ total_team[1][last.v1].health < total_team[1][last.v1].original_hp
  /\ Len(Others(team[1], last.v1)) = 2
  /\ \A i \in 1 .. 3 : i # last.v1 =>
       total_team[1][i].health = total_team[1][i].original_hp

\* ------------------------------------------------------------ involution
\* the last two calls from outside a battle were special() on the same team
SpecialledTwice == op.name = "special" /\ op.twice # <<>>

\* C31: special() applied twice in a row restores the team: in SET and
\* ROTATE mode the container is the one before the first call; in OPTIMISE
\* mode every entry has the key it had before the first call and two entries
\* of distinct keys are in the order they were in.
C31_SpecialTwiceRestores ==
  SpecialledTwice =>
    LET a == team[op.t]
        b == op.twice[1]
        n == Len(op.twice[1])
    IN IF op.mode = OPTIMISE
         THEN /\ Len(a) = n
              /\ \A i \in 1 .. n : \E j \in 1 .. n :
                   a[j].value = b[i].value /\ a[j].key = b[i].key
              /\ \A i, j \in 1 .. n :
                   b[i].key < b[j].key => PosOf(a, b[i].value) < PosOf(a, b[j].value)
         ELSE a = b

\* special() was called twice on a team of at least three entries: the first
\* call changed the container and the second brought it back
C31_Witness ==
  /\ SpecialledTwice
  /\ Len(op.before) >= 3
  /\ op.before # op.twice[1]
  /\ team[op.t] = op.twice[1]

\* the same in each mode: a stack of four, a queue of three, a sorted list
\* of three whose keys differ
C31_WitnessSet == C31_Witness /\ op.mode = SET /\ Len(op.before) >= 4
C31_WitnessRotate == C31_Witness /\ op.mode = ROTATE
C31_WitnessOptimise ==
  C31_Witness /\ op.mode = OPTIMISE /\ op.before[1].key < op.before[3].key


====
